---- MODULE Spec2Model ----
(***************************************************************************)
(* Model of the test_files crate (src/src/lib.rs): TestFiles wraps a       *)
(* tempfile::TempDir, writes files at paths joined onto its root with      *)
(* touch::file::write(.., overwrite = true), and removes the directory     *)
(* tree when it is dropped.                                                *)
(*                                                                         *)
(* A path string is a sequence of characters, each a one-symbol string.    *)
(* "NUL" is the zero byte (legal in a Rust &str, not in an OS path),       *)
(* "xFF" a byte that is not valid UTF-8 (legal in an OS path, impossible   *)
(* in a &str), "r1" and "r2" stand for the random names tempfile           *)
(* generates.  The filesystem maps a resolved absolute path (a sequence    *)
(* of component names) to a directory or a file with content.  Failures    *)
(* of the filesystem that do not follow from its content (permissions, a   *)
(* full disk) are not modelled.                                            *)
(***************************************************************************)
EXTENDS Naturals, Sequences, FiniteSets, TLC

\* ---------------------------------------------------------------- bounds
MaxInst == 2
MaxOps == 2

\* ------------------------------------------------------------ characters
SEP == "/"
NUL == "NUL"
BAD == "xFF"

\* The contents a caller passes: the empty string and a string of a byte.
Contents == {<<>>, <<"x">>}

\* Names tempfile may draw for a new directory.
TmpNames == {"r1", "r2"}

\* The values of env::temp_dir(): an ordinary directory, a directory whose
\* name is not valid UTF-8, and a directory that does not exist.
TmpDirs == {<<SEP, "t">>, <<SEP, BAD>>, <<SEP, "gone">>}

\* The relative path strings the callers pass (every one a valid &str).
PathInputs ==
    { <<"f">>,
      <<"a", SEP, "b", SEP, "f">>,
      <<"a">>,
      <<>>,
      <<".", SEP, "f">>,
      <<"a", SEP, ".", ".", SEP, ".", ".", SEP, "o", SEP, "f">>,
      <<".", ".", SEP, "r2", SEP, "f">>,
      <<SEP, "o", SEP, "f">>,
      <<"a", SEP, NUL>> }

\* ------------------------------------------------------ std::path::Path
IsAbsolute(s) == Len(s) > 0 /\ s[1] = SEP

\* Path::join / PathBuf::push: an absolute argument replaces the base;
\* otherwise a separator is added when the base does not end with one.
Join(base, rel) ==
    IF IsAbsolute(rel) THEN rel
    ELSE IF Len(base) > 0 /\ base[Len(base)] = SEP THEN base \o rel
    ELSE base \o <<SEP>> \o rel

\* Path::to_str: None when the bytes are not valid UTF-8.
to_str(p) ==
    IF \E i \in 1..Len(p) : p[i] = BAD
    THEN [some |-> FALSE, str |-> <<>>]
    ELSE [some |-> TRUE, str |-> p]

RECURSIVE SplitAcc(_, _, _)
SplitAcc(s, cur, acc) ==
    IF s = <<>> THEN (IF cur = <<>> THEN acc ELSE Append(acc, cur))
    ELSE IF Head(s) = SEP
         THEN SplitAcc(Tail(s), <<>>, IF cur = <<>> THEN acc ELSE Append(acc, cur))
         ELSE SplitAcc(Tail(s), Append(cur, Head(s)), acc)

\* The components of an absolute path string, separators collapsed.
RawComponents(s) == SplitAcc(s, <<>>, <<>>)

DOT == <<".">>
DOTDOT == <<".", ".">>

\* Path::components: "." components are normalised away.
Components(s) == SelectSeq(RawComponents(s), LAMBDA c : c # DOT)

HasNul(s) == \E i \in 1..Len(s) : s[i] = NUL

Front(s) == SubSeq(s, 1, Len(s) - 1)
Last(s) == s[Len(s)]

\* ----------------------------------------------------------- filesystem
DirNode == [dir |-> TRUE, data |-> <<>>]
FileNode(c) == [dir |-> FALSE, data |-> c]

Exists(fsys, p) == p \in DOMAIN fsys
IsDir(fsys, p) == Exists(fsys, p) /\ fsys[p].dir
IsFile(fsys, p) == Exists(fsys, p) /\ ~fsys[p].dir

Put(fsys, p, node) == [q \in DOMAIN fsys \cup {p} |-> IF q = p THEN node ELSE fsys[q]]

IsPrefix(p, q) == Len(p) <= Len(q) /\ SubSeq(q, 1, Len(p)) = p

\* The kernel's walk of a component list from directory cur: the resolved
\* path, or "none" when a component is missing or is not a directory.
RECURSIVE Walk(_, _, _)
Walk(fsys, cur, comps) ==
    IF comps = <<>> THEN [ok |-> TRUE, at |-> cur]
    ELSE IF ~IsDir(fsys, cur) THEN [ok |-> FALSE, at |-> cur]
    ELSE LET c == Head(comps)
         IN  IF c = DOT THEN Walk(fsys, cur, Tail(comps))
             ELSE IF c = DOTDOT
                  THEN Walk(fsys, IF cur = <<>> THEN cur ELSE Front(cur), Tail(comps))
                  ELSE Walk(fsys, Append(cur, c), Tail(comps))

Resolve(fsys, s) == Walk(fsys, <<>>, RawComponents(s))

\* std::fs::create_dir_all on a component list: every missing directory on
\* the way is made; it fails at a component that exists as a file.
RECURSIVE MkdirAll(_, _, _)
MkdirAll(fsys, cur, comps) ==
    IF comps = <<>> THEN [ok |-> TRUE, fs |-> fsys, at |-> cur]
    ELSE LET c == Head(comps)
         IN  IF c = DOTDOT
             THEN MkdirAll(fsys, IF cur = <<>> THEN cur ELSE Front(cur), Tail(comps))
             ELSE LET nxt == Append(cur, c)
                  IN  IF IsFile(fsys, nxt) THEN [ok |-> FALSE, fs |-> fsys, at |-> cur]
                      ELSE IF IsDir(fsys, nxt) THEN MkdirAll(fsys, nxt, Tail(comps))
                      ELSE MkdirAll(Put(fsys, nxt, DirNode), nxt, Tail(comps))

\* A zero byte anywhere in the path makes the first mkdir fail, before
\* anything is created.
create_dir_all(fsys, comps) ==
    IF \E i \in 1..Len(comps) : HasNul(comps[i])
    THEN [ok |-> FALSE, fs |-> fsys, at |-> <<>>]
    ELSE MkdirAll(fsys, <<>>, comps)

\* std::fs::read_to_string.
read_to_string(fsys, s) ==
    LET r == Resolve(fsys, s)
    IN  IF ~HasNul(s) /\ r.ok /\ IsFile(fsys, r.at)
        THEN [ok |-> TRUE, data |-> fsys[r.at].data]
        ELSE [ok |-> FALSE, data |-> <<>>]

\* std::fs::remove_dir_all.
remove_dir_all(fsys, s) ==
    LET r == Resolve(fsys, s)
    IN  IF r.ok /\ IsDir(fsys, r.at)
        THEN [q \in {x \in DOMAIN fsys : ~IsPrefix(r.at, x)} |-> fsys[q]]
        ELSE fsys

\* ---------------------------------------------------- touch::file::write
\* Opening for writing fails on a path that names a directory: one that
\* ends with a separator, "." or "..", or that resolves to a directory.
NamesDir(s) ==
    \/ RawComponents(s) = <<>>
    \/ s[Len(s)] = SEP
    \/ Last(RawComponents(s)) \in {DOT, DOTDOT}

\* touch::file::write(path, content, overwrite): the parent directories
\* are created, then the file is created if missing and written; with
\* overwrite the old content is truncated away, without it the new
\* content goes after the old.
file_write(fsys, s, content, overwrite) ==
    IF Components(s) = <<>> THEN [ok |-> FALSE, fs |-> fsys]
    ELSE LET comps == Components(s)
             mk == create_dir_all(fsys, Front(comps))
             target == Append(mk.at, Last(comps))
         IN  IF ~mk.ok THEN [ok |-> FALSE, fs |-> mk.fs]
             ELSE IF NamesDir(s) \/ HasNul(Last(comps)) \/ IsDir(mk.fs, target)
                  THEN [ok |-> FALSE, fs |-> mk.fs]
                  ELSE LET old == IF IsFile(mk.fs, target) THEN mk.fs[target].data ELSE <<>>
                           data == IF overwrite THEN content ELSE old \o content
                       IN  [ok |-> TRUE, fs |-> Put(mk.fs, target, FileNode(data))]

\* ------------------------------------------------------ tempfile::tempdir
\* tempdir(): a directory with a name that did not exist is made under
\* env::temp_dir(); it fails when that directory cannot hold it.
tempdir(fsys, base, name) ==
    LET d == Resolve(fsys, base)
    IN  IF d.ok /\ IsDir(fsys, d.at) /\ ~Exists(fsys, Append(d.at, <<name>>))
        THEN [ok |-> TRUE, path |-> Join(base, <<name>>),
              fs |-> Put(fsys, Append(d.at, <<name>>), DirNode)]
        ELSE [ok |-> FALSE, path |-> <<>>, fs |-> fsys]

\* -------------------------------------------------------------- TestFiles
\* TestFiles(TempDir): the one field is the directory's path.
TestFiles(root) == [st |-> "live", root |-> root]
NoInstance == [st |-> "none", root |-> <<>>]

path(t) == t.root

\* slash joining only the file name of the relative path.
slash_file_name(t, relative_path) ==
    IF RawComponents(relative_path) = <<>> THEN Join(path(t), relative_path)
    ELSE Join(path(t), Last(RawComponents(relative_path)))

\* slash without the separator of Path::join.
slash_concat(t, relative_path) == path(t) \o relative_path

slash(t, relative_path) == Join(path(t), relative_path)

\* try_file whose PathError carries the joined path, not the supplied one.
try_file_joined(fsys, t, p, content) ==
    LET s == to_str(slash(t, p))
    IN  IF ~s.some
        THEN [res |-> "PathError", errpath |-> slash(t, p), t |-> NoInstance, fs |-> fsys]
        ELSE LET w == file_write(fsys, s.str, content, TRUE)
             IN  IF w.ok THEN [res |-> "Ok", errpath |-> <<>>, t |-> t, fs |-> w.fs]
                 ELSE [res |-> "FileWriteError", errpath |-> <<>>, t |-> NoInstance, fs |-> w.fs]

\* try_file passing overwrite = false to touch::file::write.
try_file_append(fsys, t, p, content) ==
    LET s == to_str(slash(t, p))
    IN  IF ~s.some THEN [res |-> "PathError", errpath |-> p, t |-> NoInstance, fs |-> fsys]
        ELSE LET w == file_write(fsys, s.str, content, FALSE)
             IN  IF w.ok THEN [res |-> "Ok", errpath |-> <<>>, t |-> t, fs |-> w.fs]
                 ELSE [res |-> "FileWriteError", errpath |-> <<>>, t |-> NoInstance, fs |-> w.fs]

try_file(fsys, t, p, content) ==
    LET s == to_str(slash(t, p))
    IN  IF ~s.some THEN [res |-> "PathError", errpath |-> p, t |-> NoInstance, fs |-> fsys]
        ELSE LET w == file_write(fsys, s.str, content, TRUE)
             IN  IF w.ok THEN [res |-> "Ok", errpath |-> <<>>, t |-> t, fs |-> w.fs]
                 ELSE [res |-> "FileWriteError", errpath |-> <<>>, t |-> NoInstance, fs |-> w.fs]

\* Result::unwrap
unwrap(r) == [r EXCEPT !.res = IF r.res = "Ok" THEN "Ok" ELSE "panic"]

\* file that discards the error of try_file and returns self.
file_ignore(fsys, t, p, content) ==
    [try_file(fsys, t, p, content) EXCEPT !.res = "Ok", !.t = t]

file(fsys, t, p, content) == unwrap(try_file(fsys, t, p, content))

\* try_new keeping the path of a TempDir that is dropped as it returns.
try_new_path_only(fsys, base, name) ==
    LET d == tempdir(fsys, base, name)
    IN  IF d.ok THEN [res |-> "Ok", t |-> TestFiles(d.path), fs |-> fsys]
        ELSE [res |-> "TempDirError", t |-> NoInstance, fs |-> fsys]

try_new(fsys, base, name) ==
    LET d == tempdir(fsys, base, name)
    IN  IF d.ok THEN [res |-> "Ok", t |-> TestFiles(d.path), fs |-> d.fs]
        ELSE [res |-> "TempDirError", t |-> NoInstance, fs |-> fsys]

new(fsys, base, name) == unwrap(try_new(fsys, base, name))

default(fsys, base, name) == new(fsys, base, name)

\* A TestFiles that keeps the path and not the TempDir (into_path).
drop_leak(fsys, t) == fsys

\* Drop of the TempDir field: the tree is removed, errors are ignored.
drop(fsys, t) == remove_dir_all(fsys, path(t))

\* ------------------------------------------------------------------ state
\* fs: the filesystem; tmpdir: env::temp_dir(); inst: the instances the
\* program has constructed; panicked: the thread is unwinding; nops: the
\* number of writes made; last: the last call, what it returned and what
\* it replaced or removed (history).
VARIABLES fs, tmpdir, inst, last, panicked, nops

vars == <<fs, tmpdir, inst, last, panicked, nops>>

Ids == 1..MaxInst

NoData == [ok |-> FALSE, data |-> <<>>]

\* old: what a read of the written path gave before the call; removed: the
\* number of files and directories a drop removed.
Op(op, id, p, c, res, errpath, ret, old, removed) ==
    [op |-> op, id |-> id, path |-> p, content |-> c, res |-> res,
     errpath |-> errpath, ret |-> ret, old |-> old, removed |-> removed]

NoOp == Op("init", 0, <<>>, <<>>, "Ok", <<>>, <<>>, NoData, 0)

Init ==
    /\ tmpdir \in TmpDirs
    /\ fs = [q \in {<<>>, <<<<"t">>>>, <<<<BAD>>>>} |-> DirNode]
    /\ inst = [i \in Ids |-> NoInstance]
    /\ last = NoOp
    /\ panicked = FALSE
    /\ nops = 0

\* The slot of the next instance the program constructs.
NextId(i) == inst[i].st = "none" /\ \A j \in Ids : j < i => inst[j].st # "none"

\* A draw of tempfile's that is retried is not a step of the program.
Drawn(name) ==
    LET d == Resolve(fs, tmpdir)
    IN  ~(d.ok /\ IsDir(fs, d.at) /\ Exists(fs, Append(d.at, <<name>>)))

Construct(op, r, i) ==
    /\ fs' = r.fs
    /\ inst' = IF r.res = "Ok" THEN [inst EXCEPT ![i] = r.t] ELSE inst
    /\ last' = Op(op, IF r.res = "Ok" THEN i ELSE 0, <<>>, <<>>, r.res, <<>>, path(r.t),
                  NoData, 0)
    /\ panicked' = (r.res = "panic")
    /\ UNCHANGED <<tmpdir, nops>>

TryNew ==
    /\ ~panicked
    /\ \E i \in Ids, name \in TmpNames :
          /\ NextId(i) /\ Drawn(name)
          /\ Construct("try_new", try_new(fs, tmpdir, name), i)

New ==
    /\ ~panicked
    /\ \E i \in Ids, name \in TmpNames :
          /\ NextId(i) /\ Drawn(name)
          /\ Construct("new", new(fs, tmpdir, name), i)

Default ==
    /\ ~panicked
    /\ \E i \in Ids, name \in TmpNames :
          /\ NextId(i) /\ Drawn(name)
          /\ Construct("default", default(fs, tmpdir, name), i)

Write(op, r, i, p, c) ==
    /\ fs' = r.fs
    /\ last' = Op(op, i, p, c, r.res, r.errpath, path(r.t),
                  read_to_string(fs, Join(path(inst[i]), p)), 0)
    /\ panicked' = (r.res = "panic")
    /\ nops' = nops + 1
    /\ UNCHANGED <<tmpdir, inst>>

TryFile ==
    /\ ~panicked /\ nops < MaxOps
    /\ \E i \in Ids, p \in PathInputs, c \in Contents :
          /\ inst[i].st = "live"
          /\ Write("try_file", try_file(fs, inst[i], p, c), i, p, c)

File ==
    /\ ~panicked /\ nops < MaxOps
    /\ \E i \in Ids, p \in PathInputs, c \in Contents :
          /\ inst[i].st = "live"
          /\ Write("file", file(fs, inst[i], p, c), i, p, c)

\* The end of the instance's scope, by return or by unwinding.
Drop ==
    \E i \in Ids :
        /\ inst[i].st = "live"
        /\ fs' = drop(fs, inst[i])
        /\ inst' = [inst EXCEPT ![i].st = "dropped"]
        /\ last' = Op("drop", i, <<>>, <<>>, "Ok", <<>>, <<>>, NoData,
                      Cardinality(DOMAIN fs) - Cardinality(DOMAIN fs'))
        /\ UNCHANGED <<tmpdir, panicked, nops>>

Next == TryNew \/ New \/ Default \/ TryFile \/ File \/ Drop

Spec == Init /\ [][Next]_vars
\* ----------------------------------------------------------------- claims
Live(i) == inst[i].st = "live"
IsWrite(l) == l.op \in {"try_file", "file"}
IsCtor(l) == l.op \in {"try_new", "new", "default"}
WroteOk(l) == IsWrite(l) /\ l.res = "Ok"
Read(data) == [ok |-> TRUE, data |-> data]

\* The place in the filesystem of instance i's root directory.
RootAt(i) == Components(inst[i].root)

\* The step is a write: nops counts them.
WriteStep == nops' = nops + 1

\* Instance 1 is the one instance the program has constructed.
OnlyOne == Live(1) /\ \A j \in Ids : j # 1 => inst[j].st = "none"

ABF == <<"a", SEP, "b", SEP, "f">>

\* C1: after a write that succeeded, reading the file at the root path
\* joined with the relative path gives exactly the content written,
\* whatever was written on the instance before.
RoundTrip ==
    WroteOk(last) =>
        read_to_string(fs, Join(inst[last.id].root, last.path)) = Read(last.content)

\* A second write on the instance, of "x" to a/b/f, after a write of f.
RoundTripWitness ==
    /\ OnlyOne /\ nops = 2 /\ WroteOk(last)
    /\ last.path = ABF /\ last.content = <<"x">>
    /\ IsFile(fs, Append(RootAt(1), <<"f">>))
    /\ read_to_string(fs, Join(inst[1].root, ABF)) = Read(<<"x">>)

\* C2: the drop of an instance removes its root directory and everything
\* beneath it, whatever was written before; an instance is dropped once,
\* stays dropped, and every live instance is dropped in the end without
\* any call of the user's.
DropCleans ==
    \A i \in Ids :
        /\ (Live(i) /\ inst'[i].st = "dropped") =>
               \A q \in DOMAIN fs' : ~IsPrefix(RootAt(i), q)
        /\ inst[i].st = "dropped" => inst'[i] = inst[i]
        /\ inst'[i].st = "dropped" => inst[i].st \in {"live", "dropped"}

CleanupOnDrop ==
    /\ [][DropCleans]_vars
    /\ <>[](\A i \in Ids : ~Live(i))

\* A drop, after two writes, that removed the root, a, a/b and a/b/f or more.
CleanupOnDropWitness ==
    /\ last.op = "drop" /\ nops = 2 /\ last.removed >= 4
    /\ inst[last.id].st = "dropped"
    /\ ~Exists(fs, RootAt(last.id))

\* Scope end is not a choice of the program's: a live instance's scope ends.
FairSpec == Spec /\ WF_vars(Drop)

\* The nodes a step creates or changes.
Touched(f, g) == {q \in DOMAIN g : q \notin DOMAIN f \/ f[q] # g[q]}

\* C3: a write that succeeds creates or changes nothing outside the root
\* directory of its instance, and at most one file, whatever the relative
\* path string is.
WritesStayInside ==
    [][(WroteOk(last') /\ WriteStep) =>
          /\ \A q \in Touched(fs, fs') : IsPrefix(RootAt(last'.id), q)
          /\ DOMAIN fs \subseteq DOMAIN fs'
          /\ Cardinality({q \in Touched(fs, fs') : ~fs'[q].dir}) <= 1]_vars

\* C4: a write of path p that follows a successful write of p on the same
\* instance succeeds and leaves exactly the second content, shorter or
\* empty as it may be.
OverwriteTruncates ==
    [][(WroteOk(last) /\ IsWrite(last') /\ WriteStep
        /\ last'.id = last.id /\ last'.path = last.path) =>
          /\ last'.res = "Ok"
          /\ read_to_string(fs', Join(inst[last.id].root, last.path)) =
                 Read(last'.content)]_vars

\* The second of two writes on the one instance: file("a/b/f", "") on a file
\* that held "x", which only a write of a/b/f can have put there.
OverwriteTruncatesWitness ==
    /\ OnlyOne /\ nops = 2 /\ last.op = "file" /\ last.res = "Ok"
    /\ last.path = ABF /\ last.content = <<>>
    /\ last.old = Read(<<"x">>)
    /\ read_to_string(fs, Join(inst[1].root, ABF)) = Read(<<>>)

NonUnicode(s) == \E k \in 1..Len(s) : s[k] = BAD

\* Every node of f is in g as it was, but for the node at target.
KeptBut(f, g, target) ==
    \A q \in DOMAIN f : q \in DOMAIN g /\ (q # target => g[q] = f[q])

\* C5 as stated: try_file with a path that holds a zero byte returns the
\* path error, carrying the supplied path.
NulGivesPathError ==
    (last.op = "try_file" /\ HasNul(last.path)) =>
        (last.res = "PathError" /\ last.errpath = last.path)

\* C5 as amended: try_file returns the path error, carrying the supplied
\* path and touching nothing, exactly when the root path joined with the
\* relative path is not valid UTF-8; a relative path with a zero byte under
\* a UTF-8 root returns the write error; a try_file that fails leaves the
\* instance, and every file and directory there was, as they were.
PathErrorIffNotUnicode ==
    [][(last'.op = "try_file" /\ WriteStep) =>
          LET joined == Join(inst[last'.id].root, last'.path)
          IN  /\ (last'.res = "PathError") <=> NonUnicode(joined)
              /\ last'.res = "PathError" => (last'.errpath = last'.path /\ fs' = fs)
              /\ (HasNul(last'.path) /\ ~NonUnicode(joined)) => last'.res = "FileWriteError"
              /\ last'.res # "Ok" => (inst' = inst /\ KeptBut(fs, fs', <<"none">>))]_vars

PathErrorWitness ==
    /\ last.op = "try_file" /\ last.res = "PathError"
    /\ HasNul(last.path) /\ last.errpath = last.path
    /\ Live(last.id) /\ IsDir(fs, RootAt(last.id))

\* The place the first k segments of relative path p lead to from the root
\* of instance i.
Intermediate(f, i, p, k) == Walk(f, RootAt(i), SubSeq(RawComponents(p), 1, k))

\* C6: a successful write of a relative path whose intermediate segments
\* did not exist leaves each of them a directory beneath the root, and
\* keeps the directories there were, with their contents.
DirsAutoCreated ==
    [][(WroteOk(last') /\ WriteStep /\ ~IsAbsolute(last'.path)) =>
          LET i == last'.id
              p == last'.path
              n == Len(RawComponents(p))
              fresh == \A k \in 1..(n - 1) :
                          LET w == Intermediate(fs, i, p, k)
                          IN  ~(w.ok /\ Exists(fs, w.at))
          IN  /\ fresh => \A k \in 1..(n - 1) :
                             LET w == Intermediate(fs', i, p, k)
                             IN  /\ w.ok /\ IsDir(fs', w.at)
                                 /\ IsPrefix(RootAt(i), w.at)
              /\ KeptBut(fs, fs', Resolve(fs', Join(inst[i].root, p)).at)]_vars

SameFile(f, r, p1, p2) == Resolve(f, Join(r, p1)).at = Resolve(f, Join(r, p2)).at

\* Two successful writes in a row on one instance.
Chained == WroteOk(last) /\ WroteOk(last') /\ WriteStep /\ last'.id = last.id

BothRead(r) ==
    /\ read_to_string(fs', Join(r, last.path)) = Read(last.content)
    /\ read_to_string(fs', Join(r, last'.path)) = Read(last'.content)

\* C7 as stated: after two successful writes chained on an instance with
\* different path strings, both files hold their contents, and both calls
\* returned the instance.
ChainedBothKept ==
    [][(Chained /\ last.path # last'.path) =>
          /\ last.ret = inst[last.id].root /\ last'.ret = inst[last.id].root
          /\ BothRead(inst[last.id].root)]_vars

\* C7 as amended: a successful write returns the instance; after two
\* successful writes chained on an instance with paths that resolve to
\* different files, both files hold their contents; and a successful write
\* changes no file or directory there was but the file its path resolves to.
ChainedDistinctKept ==
    /\ [](WroteOk(last) => last.ret = inst[last.id].root)
    /\ [][(Chained /\ ~SameFile(fs', inst[last.id].root, last.path, last'.path)) =>
             BothRead(inst[last.id].root)]_vars
    /\ [][(WroteOk(last') /\ WriteStep) =>
             /\ inst' = inst
             /\ KeptBut(fs, fs', Resolve(fs', Join(inst[last'.id].root, last'.path)).at)]_vars

\* The second of two writes on the one instance: file("f", "") after a write
\* of "x" to a/b/f, which still reads "x".
ChainedWitness ==
    /\ OnlyOne /\ nops = 2 /\ last.op = "file" /\ last.res = "Ok"
    /\ last.path = <<"f">> /\ last.content = <<>> /\ last.old = NoData
    /\ last.ret = inst[1].root
    /\ read_to_string(fs, Join(inst[1].root, ABF)) = Read(<<"x">>)
    /\ read_to_string(fs, Join(inst[1].root, <<"f">>)) = Read(<<>>)

\* C8: the root path of a live instance is absolute and is a directory,
\* empty when the constructor returns it; no call changes it.
RootIsDir ==
    \A i \in Ids :
        Live(i) => /\ IsAbsolute(path(inst[i]))
                   /\ Resolve(fs, path(inst[i])).ok
                   /\ IsDir(fs, Resolve(fs, path(inst[i])).at)

EmptyAtStart ==
    (IsCtor(last) /\ last.res = "Ok") =>
        /\ last.ret = path(inst[last.id])
        /\ \A q \in DOMAIN fs : IsPrefix(RootAt(last.id), q) => q = RootAt(last.id)

RootStable == \A i \in Ids : Live(i) => path(inst'[i]) = path(inst[i])

RootInvariant == [](RootIsDir /\ EmptyAtStart) /\ [][RootStable]_vars

\* A write of the empty path that failed on an instance that holds a file.
RootInvariantWitness ==
    /\ OnlyOne /\ nops = 2
    /\ last.op = "try_file" /\ last.path = <<>> /\ last.res = "FileWriteError"
    /\ IsFile(fs, Append(RootAt(1), <<"f">>))
    /\ IsDir(fs, RootAt(1))

\* The nodes beneath (and at) the root of instance j are the same in f and g.
SameUnder(f, g, j) ==
    \A q \in DOMAIN f \cup DOMAIN g :
        IsPrefix(RootAt(j), q) => (q \in DOMAIN f /\ q \in DOMAIN g /\ f[q] = g[q])

\* C9: the roots of two live instances are distinct and neither is beneath
\* the other, and a write on one instance or its drop changes nothing
\* beneath the root of the other.
Isolation ==
    /\ [](\A i, j \in Ids :
            (i # j /\ Live(i) /\ Live(j)) => ~IsPrefix(RootAt(i), RootAt(j)))
    /\ [][\A i, j \in Ids :
            (/\ i # j /\ Live(i) /\ Live(j) /\ last'.id = i
             /\ (WriteStep \/ inst'[i].st = "dropped")) =>
                SameUnder(fs, fs', j)]_vars

\* C10: file panics exactly when try_file returns an error and has the
\* effect of try_file, returning the instance when it succeeds; new and
\* default panic exactly when try_new returns the error and give the
\* instance of try_new when it succeeds.
FileAsTryFile ==
    (last'.op = "file" /\ WriteStep) =>
        LET r == try_file(fs, inst[last'.id], last'.path, last'.content)
        IN  /\ (last'.res = "panic") <=> (r.res # "Ok")
            /\ panicked' <=> (r.res # "Ok")
            /\ fs' = r.fs /\ inst' = inst
            /\ r.res = "Ok" => (last'.res = "Ok" /\ last'.ret = path(r.t))

NewAsTryNew ==
    (last'.op \in {"new", "default"} /\ ~panicked) =>
        \E name \in TmpNames :
            /\ Drawn(name)
            /\ LET r == try_new(fs, tmpdir, name)
               IN  /\ (last'.res = "panic") <=> (r.res # "Ok")
                   /\ panicked' <=> (r.res # "Ok")
                   /\ fs' = r.fs
                   /\ r.res = "Ok" => (last'.res = "Ok" /\ inst'[last'.id] = r.t)
                   /\ r.res # "Ok" => inst' = inst

PanicIffError == [][FileAsTryFile /\ NewAsTryNew]_vars

\* file("a/b/f", ..) that panicked on an instance where a is a file.
PanicIffErrorWitness ==
    /\ OnlyOne /\ nops = 2
    /\ last.op = "file" /\ last.path = ABF /\ last.res = "panic" /\ panicked
    /\ IsFile(fs, Append(RootAt(1), <<"a">>))
====
